---- MODULE Spec2Model ----
(***************************************************************************)
(* Model of the quality_check reconciliation code:                         *)
(*   src/quality_check_gui.py          TableFiller (GUI engine) and the    *)
(*                                     window QualityCheckGUI              *)
(*   src/scripts/auto_fill_enhanced.py TableFiller (enhanced script)       *)
(*   src/scripts/auto_fill_table.py    module functions + main (basic)     *)
(*                                                                         *)
(* Cell values are records [kind, s, n]:                                   *)
(*   kind = "nan"   float NaN / missing cell (pd.isna is true)             *)
(*   kind = "none"  Python None (Series.get default; pd.isna is true)      *)
(*   kind = "str"   Python str, s = its characters (1-character strings)   *)
(*   kind = "int"   Python/numpy integer n                                 *)
(*   kind = "num"   Python float: integer part n, fractional digits s      *)
(*                  (no trailing zeros; <<>> stands for ".0")              *)
(*   kind = "bool"  Python bool, n = 1 for True and 0 for False            *)
(* Hebrew column names and note texts are written transliterated.         *)
(***************************************************************************)
EXTENDS Integers, Sequences, FiniteSets, TLC

\* ------------------------------------------------------------------ values
NaN == [kind |-> "nan", s |-> <<>>, n |-> 0]

None == [kind |-> "none", s |-> <<>>, n |-> 0]

Str(chars) == [kind |-> "str", s |-> chars, n |-> 0]

IntV(i) == [kind |-> "int", s |-> <<>>, n |-> i]

Num(ip, frac) == [kind |-> "num", s |-> frac, n |-> ip]

Bool(b) == [kind |-> "bool", s |-> <<>>, n |-> IF b THEN 1 ELSE 0]

True == Bool(TRUE)

False == Bool(FALSE)

EmptyStr == Str(<<>>)

\* pd.isna(value) for a scalar
isna(v) == v.kind \in {"nan", "none"}

\* ----------------------------------------------------------- str methods
\* the characters of the model's texts, in code point order
CharOrder == <<" ", ".", "0", "1", "2", "3", "4", "5", "6", "7", "8", "9", "<", ">", "A", "B", "N", "a", "b", "c", "l", "n", "u">>

\* ord(c), up to an order-preserving renumbering
Ord(c) == CHOOSE i \in 1..Len(CharOrder) : CharOrder[i] = c

\* s < t for two str values (lexicographic by code point)
StrLess(s, t) ==
  \/ \E i \in 1..Len(s) :
        /\ i <= Len(t)
        /\ \A j \in 1..(i - 1) : s[j] = t[j]
        /\ Ord(s[i]) < Ord(t[i])
  \/ /\ Len(s) < Len(t)
     /\ \A j \in 1..Len(s) : s[j] = t[j]

DigitChars == <<"0", "1", "2", "3", "4", "5", "6", "7", "8", "9">>

IsDigit(c) == \E i \in 1..10 : DigitChars[i] = c

DigitVal(c) == (CHOOSE i \in 1..10 : DigitChars[i] = c) - 1

IsSpace(c) == c = " "

\* str.lower() on one character
LowerChar(c) ==
  CASE c = "A" -> "a"
    [] c = "B" -> "b"
    [] c = "N" -> "n"
    [] c = "T" -> "t"
    [] c = "F" -> "f"
    [] OTHER -> c

\* str.lower()
Lower(s) == [i \in 1..Len(s) |-> LowerChar(s[i])]

RECURSIVE LStrip(_)
LStrip(s) == IF s # <<>> /\ IsSpace(Head(s)) THEN LStrip(Tail(s)) ELSE s

RECURSIVE RStrip(_)
RStrip(s) ==
  IF s # <<>> /\ IsSpace(s[Len(s)]) THEN RStrip(SubSeq(s, 1, Len(s) - 1)) ELSE s

\* str.strip()
Strip(s) == RStrip(LStrip(s))

\* ------------------------------------------------------- str() and float()
RECURSIVE Digits(_)
\* decimal digits of a natural number
Digits(n) ==
  IF n < 10 THEN <<DigitChars[n + 1]>>
  ELSE Digits(n \div 10) \o <<DigitChars[(n % 10) + 1]>>

\* str(value), also the formatting of {value} in an f-string
PyStr(v) ==
  CASE v.kind = "str" -> v.s
    [] v.kind = "int" -> Digits(v.n)
    [] v.kind = "num" -> Digits(v.n) \o <<".">> \o (IF v.s = <<>> THEN <<"0">> ELSE v.s)
    [] v.kind = "nan" -> <<"n", "a", "n">>
    [] v.kind = "none" -> <<"N", "o", "n", "e">>
    [] v.kind = "bool" -> IF v.n = 1 THEN <<"T", "r", "u", "e">> ELSE <<"F", "a", "l", "s", "e">>

RECURSIVE DigitsVal(_)
\* value of a sequence of decimal digits
DigitsVal(ds) ==
  IF ds = <<>> THEN 0
  ELSE 10 * DigitsVal(SubSeq(ds, 1, Len(ds) - 1)) + DigitVal(ds[Len(ds)])

RECURSIVE StripZeros(_)
\* fractional digits without the trailing zeros
StripZeros(ds) ==
  IF ds # <<>> /\ ds[Len(ds)] = "0" THEN StripZeros(SubSeq(ds, 1, Len(ds) - 1)) ELSE ds

AllDigits(s) == \A i \in 1..Len(s) : IsDigit(s[i])

\* position of the decimal point, 0 when there is none
DotPos(s) == IF \E i \in 1..Len(s) : s[i] = "." THEN CHOOSE i \in 1..Len(s) : s[i] = "." /\ \A j \in 1..(i - 1) : s[j] # "." ELSE 0

\* float(str) accepts the text: surrounding whitespace is ignored; the text
\* is "nan" in any letter case, or digits with at most one decimal point and
\* at least one digit (signs, exponents, underscores and "inf" use
\* characters outside the model's alphabet)
FloatParses(s) ==
  LET t == Strip(s)
      d == DotPos(t)
      ip == IF d = 0 THEN t ELSE SubSeq(t, 1, d - 1)
      fp == IF d = 0 THEN <<>> ELSE SubSeq(t, d + 1, Len(t))
  IN \/ Lower(t) = <<"n", "a", "n">>
     \/ /\ AllDigits(ip)
        /\ AllDigits(fp)
        /\ Len(ip) + Len(fp) > 0

\* float(str) for a text that parses
FloatOfStr(s) ==
  LET t == Strip(s)
      d == DotPos(t)
      ip == IF d = 0 THEN t ELSE SubSeq(t, 1, d - 1)
      fp == IF d = 0 THEN <<>> ELSE SubSeq(t, d + 1, Len(t))
  IN IF Lower(t) = <<"n", "a", "n">> THEN NaN
     ELSE Num(DigitsVal(ip), StripZeros(fp))

\* float(value) raised (ValueError / TypeError)
FloatRaises(v) ==
  \/ v.kind = "none"
  \/ v.kind = "str" /\ ~FloatParses(v.s)

\* float(value) when it does not raise
Float(v) ==
  CASE v.kind = "str" -> FloatOfStr(v.s)
    [] v.kind = "int" -> Num(v.n, <<>>)
    [] v.kind = "bool" -> Num(v.n, <<>>)
    [] OTHER -> v

\* ----------------------------------------------------- clean_numeric_field
NullToken == Str(<<"<", "N", "u", "l", "l", ">">>)

NanText == Str(<<"n", "a", "n">>)

\* mutant of clean_numeric_field: a value float() rejects becomes absent
clean_numeric_field_AbsentOnFailure(value) ==
  IF isna(value) \/ value = NullToken \/ value = NanText \/ value = EmptyStr
  THEN NaN
  ELSE IF FloatRaises(value) THEN NaN ELSE Float(value)

\* TableFiller.clean_numeric_field (GUI engine and enhanced script)
clean_numeric_field(value) ==
  IF isna(value) \/ value = NullToken \/ value = NanText \/ value = EmptyStr
  THEN NaN
  ELSE IF FloatRaises(value) THEN value ELSE Float(value)

\* clean_numeric_field of the basic script: no test for the empty string
clean_numeric_field_basic(value) ==
  IF isna(value) \/ value = NullToken \/ value = NanText
  THEN NaN
  ELSE IF FloatRaises(value) THEN value ELSE Float(value)

\* lambda x: x.strip() if isinstance(x, str) else x
strip_text(x) == IF x.kind = "str" THEN Str(Strip(x.s)) ELSE x

\* --------------------------------------------------------- compare_values
\* mutant of compare_values: the two null tests forgotten
compare_values_NoNullTest(val1, val2) ==
  Lower(Strip(PyStr(val1))) = Lower(Strip(PyStr(val2)))

\* TableFiller.compare_values (GUI engine and enhanced script)
compare_values(val1, val2) ==
  IF isna(val1) /\ isna(val2) THEN TRUE
  ELSE IF isna(val1) \/ isna(val2) THEN FALSE
  ELSE Lower(Strip(PyStr(val1))) = Lower(Strip(PyStr(val2)))

\* compare_values of the basic script: no lower()
compare_values_basic(val1, val2) ==
  IF isna(val1) /\ isna(val2) THEN TRUE
  ELSE IF isna(val1) \/ isna(val2) THEN FALSE
  ELSE Strip(PyStr(val1)) = Strip(PyStr(val2))

\* ------------------------------------------------------------- data frames
\* A table is [cols, rows]: cols is the set of its column names (already
\* stripped), rows a sequence of records over every column name; the entry
\* of a column the table lacks is None and is never read except through Get.
\* Column names: link = "kishur lakovets" (the key), disk = "disk" (one of
\* the five pass-through columns of Complot, all copied the same way),
\* gush (block), helka (parcel), migrash (plot), address = "ktovet".
AllCols == {"link", "disk", "gush", "helka", "migrash", "address"}

\* Series.get(col, default) on a row of the table df
Get(df, r, col, default) == IF col \in df.cols THEN r[col] ELSE default

\* if field in df.columns: df[field] = df[field].apply(self.clean_numeric_field)
CleanNumericColumn(df, field) ==
  IF field \in df.cols
  THEN [df EXCEPT !.rows = [i \in 1..Len(df.rows) |->
                              [df.rows[i] EXCEPT ![field] = clean_numeric_field(df.rows[i][field])]]]
  ELSE df

\* if field in df.columns: df[field] = df[field].apply(lambda x: x.strip() ...)
StripTextColumn(df, field) ==
  IF field \in df.cols
  THEN [df EXCEPT !.rows = [i \in 1..Len(df.rows) |->
                              [df.rows[i] EXCEPT ![field] = strip_text(df.rows[i][field])]]]
  ELSE df

\* df[field] = df[field].apply(clean_numeric_field) of the basic script, for a
\* column the table has (MainRaises covers the column it lacks)
CleanNumericColumnBasic(df, field) ==
  IF field \in df.cols
  THEN [df EXCEPT !.rows = [i \in 1..Len(df.rows) |->
                              [df.rows[i] EXCEPT ![field] = clean_numeric_field_basic(df.rows[i][field])]]]
  ELSE df

\* mutant of Links: dropna() forgotten
Links_KeepsNulls(df) == {df.rows[i].link : i \in 1..Len(df.rows)}

\* df[col].dropna().unique() as a set
Links(df) == {df.rows[i].link : i \in {j \in 1..Len(df.rows) : ~isna(df.rows[j].link)}}

\* df[df[col] == link]: the positions of the matching rows (a missing cell
\* equals nothing, itself included)
Match(df, link) ==
  {i \in 1..Len(df.rows) : ~isna(df.rows[i].link) /\ ~isna(link) /\ df.rows[i].link = link}

\* mutant of Iloc0: the last matching row instead of the first
Iloc0_Last(df, m) == df.rows[CHOOSE i \in m : \A j \in m : i >= j]

\* .iloc[0] of a non-empty match
Iloc0(df, m) == df.rows[CHOOSE i \in m : \A j \in m : i <= j]

RECURSIVE Sorted(_)
\* sorted(all_links) for a set of str keys
Sorted(S) ==
  IF S = {} THEN <<>>
  ELSE LET m == CHOOSE x \in S : \A y \in S : x = y \/ StrLess(x.s, y.s)
       IN <<m>> \o Sorted(S \ {m})

\* ------------------------------------------------------------ merged rows
\* c_* = "mehakomplot - ...", l_* = "mehashikhva - ...", cmp_* = "hashvaa - ...",
\* notes = "hearot".  A column a row's dict lacks is NaN in pd.DataFrame(rows).
EmptyRow ==
  [c_link |-> NaN, c_disk |-> NaN, c_gush |-> NaN, c_helka |-> NaN,
   c_migrash |-> NaN, c_address |-> NaN,
   l_link |-> NaN, l_gush |-> NaN, l_helka |-> NaN, l_migrash |-> NaN,
   l_address |-> NaN,
   cmp_link |-> NaN, cmp_gush |-> NaN, cmp_helka |-> NaN, cmp_migrash |-> NaN,
   cmp_address |-> NaN, notes |-> NaN]

\* "hatama mlea" (full match)
NoteFullMatch == Str(<<"hatama mlea">>)

\* "nimtsa bakomplot bilvad" (found in Complot only)
NoteComplotOnly == Str(<<"nimtsa bakomplot bilvad">>)

\* "nimtsa bashikhva bilvad" (found in Layer only)
NoteLayerOnly == Str(<<"nimtsa bashikhva bilvad">>)

\* "i hatama: " (mismatch prefix of process_matches)
MismatchPrefix == <<"i hatama: ">>

\* "i hatama b: " (mismatch prefix of the basic script)
MismatchPrefixBasic == <<"i hatama b: ">>

RECURSIVE Join(_)
\* ", ".join(parts)
Join(parts) ==
  IF parts = <<>> THEN <<>>
  ELSE IF Len(parts) = 1 THEN parts[1]
  ELSE parts[1] \o <<", ">> \o Join(Tail(parts))

\* f"{name} ({c} != {l})"
Discrepancy(name, cv, lv) == <<name, " (">> \o PyStr(cv) \o <<" != ">> \o PyStr(lv) \o <<")">>

\* the row's Complot fields, lines 111-122
WithComplot(row, df, c) ==
  [row EXCEPT !.c_link = Get(df, c, "link", EmptyStr),
              !.c_disk = Get(df, c, "disk", EmptyStr),
              !.c_gush = Get(df, c, "gush", EmptyStr),
              !.c_helka = Get(df, c, "helka", EmptyStr),
              !.c_migrash = Get(df, c, "migrash", EmptyStr),
              !.c_address = Get(df, c, "address", EmptyStr)]

\* the row's Layer fields, lines 126-132
WithLayer(row, df, l) ==
  [row EXCEPT !.l_link = Get(df, l, "link", EmptyStr),
              !.l_gush = Get(df, l, "gush", EmptyStr),
              !.l_helka = Get(df, l, "helka", EmptyStr),
              !.l_migrash = Get(df, l, "migrash", EmptyStr),
              !.l_address = Get(df, l, "address", EmptyStr)]

\* mutant of WithComparison: the note echoes the Layer value before the
\* Complot value
WithComparison_SecondaryFirst(row, cdf, c, ldf, l) ==
  LET gush_match == compare_values(Get(cdf, c, "gush", None), Get(ldf, l, "gush", None))
      helka_match == compare_values(Get(cdf, c, "helka", None), Get(ldf, l, "helka", None))
      migrash_match == compare_values(Get(cdf, c, "migrash", None), Get(ldf, l, "migrash", None))
      address_match == compare_values(Get(cdf, c, "address", None), Get(ldf, l, "address", None))
      discrepancies ==
        (IF ~gush_match
         THEN <<Discrepancy("gush", Get(ldf, l, "gush", None), Get(cdf, c, "gush", None))>>
         ELSE <<>>)
        \o (IF ~helka_match
            THEN <<Discrepancy("helka", Get(ldf, l, "helka", None), Get(cdf, c, "helka", None))>>
            ELSE <<>>)
        \o (IF ~migrash_match
            THEN <<Discrepancy("migrash", Get(ldf, l, "migrash", None), Get(cdf, c, "migrash", None))>>
            ELSE <<>>)
        \o (IF ~address_match THEN << <<"ktovet">> >> ELSE <<>>)
      flagged == [row EXCEPT !.cmp_link = True,
                             !.cmp_gush = Bool(gush_match),
                             !.cmp_helka = Bool(helka_match),
                             !.cmp_migrash = Bool(migrash_match),
                             !.cmp_address = Bool(address_match)]
  IN IF discrepancies # <<>>
     THEN [row |-> [flagged EXCEPT !.notes = Str(MismatchPrefix \o Join(discrepancies))],
           perfect |-> 0, partial |-> 1]
     ELSE [row |-> [flagged EXCEPT !.notes = NoteFullMatch],
           perfect |-> 1, partial |-> 0]

\* the comparison flags, the note and the counter increments of a key found
\* in both sources, lines 135-168
WithComparison(row, cdf, c, ldf, l) ==
  LET gush_match == compare_values(Get(cdf, c, "gush", None), Get(ldf, l, "gush", None))
      helka_match == compare_values(Get(cdf, c, "helka", None), Get(ldf, l, "helka", None))
      migrash_match == compare_values(Get(cdf, c, "migrash", None), Get(ldf, l, "migrash", None))
      address_match == compare_values(Get(cdf, c, "address", None), Get(ldf, l, "address", None))
      discrepancies ==
        (IF ~gush_match
         THEN <<Discrepancy("gush", Get(cdf, c, "gush", None), Get(ldf, l, "gush", None))>>
         ELSE <<>>)
        \o (IF ~helka_match
            THEN <<Discrepancy("helka", Get(cdf, c, "helka", None), Get(ldf, l, "helka", None))>>
            ELSE <<>>)
        \o (IF ~migrash_match
            THEN <<Discrepancy("migrash", Get(cdf, c, "migrash", None), Get(ldf, l, "migrash", None))>>
            ELSE <<>>)
        \o (IF ~address_match THEN << <<"ktovet">> >> ELSE <<>>)
      flagged == [row EXCEPT !.cmp_link = True,
                             !.cmp_gush = Bool(gush_match),
                             !.cmp_helka = Bool(helka_match),
                             !.cmp_migrash = Bool(migrash_match),
                             !.cmp_address = Bool(address_match)]
  IN IF discrepancies # <<>>
     THEN [row |-> [flagged EXCEPT !.notes = Str(MismatchPrefix \o Join(discrepancies))],
           perfect |-> 0, partial |-> 1]
     ELSE [row |-> [flagged EXCEPT !.notes = NoteFullMatch],
           perfect |-> 1, partial |-> 0]

\* mutant of Iteration: the last elif (Layer-only note) forgotten
Iteration_NoLayerOnlyNote(cdf, ldf, link) ==
  LET complot_match == Match(cdf, link)
      layer_match == Match(ldf, link)
      r1 == IF complot_match # {} THEN WithComplot(EmptyRow, cdf, Iloc0(cdf, complot_match)) ELSE EmptyRow
      r2 == IF layer_match # {} THEN WithLayer(r1, ldf, Iloc0(ldf, layer_match)) ELSE r1
  IN IF complot_match # {} /\ layer_match # {}
     THEN WithComparison(r2, cdf, Iloc0(cdf, complot_match), ldf, Iloc0(ldf, layer_match))
     ELSE IF complot_match # {}
     THEN [row |-> [r2 EXCEPT !.notes = NoteComplotOnly], perfect |-> 0, partial |-> 0]
     ELSE [row |-> r2, perfect |-> 0, partial |-> 0]

\* mutant of Iteration: the Layer fields are filled whenever the Layer table
\* has rows, from its first row, instead of whenever the key matches
Iteration_LayerFromAnyRow(cdf, ldf, link) ==
  LET complot_match == Match(cdf, link)
      layer_match == Match(ldf, link)
      r1 == IF complot_match # {} THEN WithComplot(EmptyRow, cdf, Iloc0(cdf, complot_match)) ELSE EmptyRow
      r2 == IF ldf.rows # <<>>
            THEN WithLayer(r1, ldf, IF layer_match # {} THEN Iloc0(ldf, layer_match) ELSE ldf.rows[1])
            ELSE r1
  IN IF complot_match # {} /\ layer_match # {}
     THEN WithComparison(r2, cdf, Iloc0(cdf, complot_match), ldf, Iloc0(ldf, layer_match))
     ELSE IF complot_match # {}
     THEN [row |-> [r2 EXCEPT !.notes = NoteComplotOnly], perfect |-> 0, partial |-> 0]
     ELSE IF layer_match # {}
     THEN [row |-> [r2 EXCEPT !.notes = NoteLayerOnly], perfect |-> 0, partial |-> 0]
     ELSE [row |-> r2, perfect |-> 0, partial |-> 0]

\* one iteration of the loop of process_matches, lines 107-174: the row
\* appended and the increments of perfect_matches and partial_matches
Iteration(cdf, ldf, link) ==
  LET complot_match == Match(cdf, link)
      layer_match == Match(ldf, link)
      r1 == IF complot_match # {} THEN WithComplot(EmptyRow, cdf, Iloc0(cdf, complot_match)) ELSE EmptyRow
      r2 == IF layer_match # {} THEN WithLayer(r1, ldf, Iloc0(ldf, layer_match)) ELSE r1
  IN IF complot_match # {} /\ layer_match # {}
     THEN WithComparison(r2, cdf, Iloc0(cdf, complot_match), ldf, Iloc0(ldf, layer_match))
     ELSE IF complot_match # {}
     THEN [row |-> [r2 EXCEPT !.notes = NoteComplotOnly], perfect |-> 0, partial |-> 0]
     ELSE IF layer_match # {}
     THEN [row |-> [r2 EXCEPT !.notes = NoteLayerOnly], perfect |-> 0, partial |-> 0]
     ELSE [row |-> r2, perfect |-> 0, partial |-> 0]

RECURSIVE Loop_PartialIsNotPerfect(_, _, _, _)
\* mutant of Loop: every row that is not a full match counts as partial
Loop_PartialIsNotPerfect(cdf, ldf, links, acc) ==
  IF links = <<>> THEN acc
  ELSE LET it == Iteration(cdf, ldf, Head(links))
       IN Loop_PartialIsNotPerfect(cdf, ldf, Tail(links),
               [rows |-> Append(acc.rows, it.row),
                perfect_matches |-> acc.perfect_matches + it.perfect,
                partial_matches |-> acc.partial_matches + (1 - it.perfect)])

RECURSIVE Loop(_, _, _, _)
\* the loop of process_matches over the keys still to visit, lines 102-174
Loop(cdf, ldf, links, acc) ==
  IF links = <<>> THEN acc
  ELSE LET it == Iteration(cdf, ldf, Head(links))
       IN Loop(cdf, ldf, Tail(links),
               [rows |-> Append(acc.rows, it.row),
                perfect_matches |-> acc.perfect_matches + it.perfect,
                partial_matches |-> acc.partial_matches + it.partial])

\* process_matches raises KeyError: lines 97-98 index the key column of both
\* tables without a test
KeyColumnMissing(cdf, ldf) == "link" \notin cdf.cols \/ "link" \notin ldf.cols

\* the order in which process_matches visits the keys, lines 97-99 and 106
all_links(cdf, ldf) == Sorted(Links(cdf) \cup Links(ldf))

\* process_matches when it does not raise: rows, counters, and
\* total_rows = len(self.filled_df), lines 94-178
process_matches(cdf, ldf) ==
  LET r == Loop(cdf, ldf, all_links(cdf, ldf),
                [rows |-> <<>>, perfect_matches |-> 0, partial_matches |-> 0])
  IN [rows |-> r.rows, perfect_matches |-> r.perfect_matches,
      partial_matches |-> r.partial_matches, total_rows |-> Len(r.rows)]

\* -------------------------------------------------- the basic script's main
\* the flags and the note of a key found in both sources, lines 125-169;
\* a note is written only when a field disagrees
WithComparisonBasic(row, cdf, c, ldf, l) ==
  LET gush_match == compare_values_basic(Get(cdf, c, "gush", None), Get(ldf, l, "gush", None))
      helka_match == compare_values_basic(Get(cdf, c, "helka", None), Get(ldf, l, "helka", None))
      migrash_match == compare_values_basic(Get(cdf, c, "migrash", None), Get(ldf, l, "migrash", None))
      address_match == compare_values_basic(Get(cdf, c, "address", None), Get(ldf, l, "address", None))
      discrepancies ==
        (IF ~gush_match THEN << <<"gush">> >> ELSE <<>>)
        \o (IF ~helka_match THEN << <<"helka">> >> ELSE <<>>)
        \o (IF ~migrash_match THEN << <<"migrash">> >> ELSE <<>>)
        \o (IF ~address_match THEN << <<"ktovet">> >> ELSE <<>>)
      flagged == [row EXCEPT !.cmp_link = True,
                             !.cmp_gush = Bool(gush_match),
                             !.cmp_helka = Bool(helka_match),
                             !.cmp_migrash = Bool(migrash_match),
                             !.cmp_address = Bool(address_match)]
  IN IF discrepancies # <<>>
     THEN [flagged EXCEPT !.notes = Str(MismatchPrefixBasic \o Join(discrepancies))]
     ELSE flagged

\* one iteration of main's loop on the template row it fills, lines 89-171:
\* the row after the iteration and the increment of matches_found
IterationBasic(cdf, ldf, file_link, row) ==
  LET complot_match == Match(cdf, file_link)
      layer_match == Match(ldf, file_link)
      r1 == IF complot_match # {} THEN WithComplot(row, cdf, Iloc0(cdf, complot_match)) ELSE row
      r2 == IF layer_match # {} THEN WithLayer(r1, ldf, Iloc0(ldf, layer_match)) ELSE r1
  IN IF complot_match # {} /\ layer_match # {}
     THEN [row |-> WithComparisonBasic(r2, cdf, Iloc0(cdf, complot_match), ldf, Iloc0(ldf, layer_match)),
           matches_found |-> 1]
     ELSE [row |-> r2, matches_found |-> 0]

RECURSIVE LoopBasic(_, _, _, _, _)
\* the loop of main: the i-th key visited fills row i (0-based) of filled_df,
\* which starts as a copy of the template and grows by one row when
\* i >= len(filled_df), lines 85-171
LoopBasic(cdf, ldf, order, i, acc) ==
  IF i > Len(order) THEN acc
  ELSE LET grown == IF i > Len(acc.rows) THEN Append(acc.rows, EmptyRow) ELSE acc.rows
           it == IterationBasic(cdf, ldf, order[i], grown[i])
       IN LoopBasic(cdf, ldf, order, i + 1,
                    [rows |-> [grown EXCEPT ![i] = it.row],
                     matches_found |-> acc.matches_found + it.matches_found,
                     rows_filled |-> acc.rows_filled + 1])

RECURSIVE DropAllNa(_)
\* filled_df.dropna(how='all'), line 174
DropAllNa(rows) ==
  IF rows = <<>> THEN <<>>
  ELSE IF Head(rows) = EmptyRow THEN DropAllNa(Tail(rows))
  ELSE <<Head(rows)>> \o DropAllNa(Tail(rows))

\* the key set of main, lines 75-79: a source without the key column adds nothing
all_file_links(cdf, ldf) ==
  (IF "link" \in cdf.cols THEN Links(cdf) ELSE {})
  \cup (IF "link" \in ldf.cols THEN Links(ldf) ELSE {})

\* the orders in which a set can be iterated (line 85 iterates the set itself)
Orders(S) == {o \in [1..Cardinality(S) -> S] : \A i, j \in 1..Cardinality(S) : o[i] = o[j] => i = j}

\* main raises KeyError: lines 60-67 index the three numeric columns of both
\* tables, and lines 90 and 93 the key column of both once a key is visited
MainRaises(cdf, ldf) ==
  \/ ~({"helka", "migrash", "gush"} \subseteq cdf.cols)
  \/ ~({"helka", "migrash", "gush"} \subseteq ldf.cols)
  \/ /\ all_file_links(cdf, ldf) # {}
     /\ KeyColumnMissing(cdf, ldf)

\* the cleaning of main, lines 60-67 (numeric fields only, no text cleaning)
CleanBasic(df) ==
  CleanNumericColumnBasic(CleanNumericColumnBasic(CleanNumericColumnBasic(df, "helka"), "migrash"), "gush")

\* main when it does not raise, for one iteration order of the key set
main(cdf, ldf, template_rows, order) ==
  LET r == LoopBasic(cdf, ldf, order, 1,
                     [rows |-> [i \in 1..template_rows |-> EmptyRow],
                      matches_found |-> 0, rows_filled |-> 0])
  IN [rows |-> DropAllNa(r.rows), matches_found |-> r.matches_found,
      rows_filled |-> r.rows_filled]

\* ------------------------------------------------------------------ bounds
\* rows of the Complot file
MaxComplotRows == 2

\* rows of the Layer file
MaxLayerRows == 2

\* calls of run on one TableFiller
MaxRuns == 2

\* rows of each file of a run whose environment has a fault or whose output
\* path is not the usual one
MaxFaultRows == 1

\* ------------------------------------------------------------------ inputs
KeyA == Str(<<"a">>)

KeyB == Str(<<"b">>)

KeyCSpace == Str(<<" ", "c">>)

\* attribute cells of Complot rows: (gush, helka, migrash, address)
ComplotAttr1 ==
  [gush |-> Str(<<"5">>), helka |-> Str(<<"7">>), migrash |-> Str(<<"a", "b">>), address |-> Str(<<"A", "b">>)]

ComplotAttr2 ==
  [gush |-> Str(<<"6">>), helka |-> NullToken, migrash |-> Str(<<"a", "b">>), address |-> NaN]

\* attribute cells of Layer rows
LayerAttr1 ==
  [gush |-> Num(5, <<>>), helka |-> Str(<<" ", "7", ".", "0">>), migrash |-> Str(<<"A", "B", " ">>), address |-> Str(<<" ", "a", "b">>)]

LayerAttr2 ==
  [gush |-> Str(<<"6", ".", "0">>), helka |-> NaN, migrash |-> Str(<<"a", "b", " ">>), address |-> NaN]

\* a row of a file: with the key column, or (link = None) without
FileRow(link, a) ==
  [link |-> link, disk |-> NaN, gush |-> a.gush, helka |-> a.helka,
   migrash |-> a.migrash, address |-> a.address]

\* the disk cell of the i-th row is the number i
Numbered(rows) == [i \in 1..Len(rows) |-> [rows[i] EXCEPT !.disk = IntV(i)]]

\* the rows of a Complot file that has the key column
ComplotRows ==
  { FileRow(KeyA, ComplotAttr1), FileRow(KeyA, ComplotAttr2),
    FileRow(KeyCSpace, ComplotAttr1), FileRow(NaN, ComplotAttr2) }

\* the rows of a Layer file that has the key column
LayerRows ==
  { FileRow(KeyA, LayerAttr1), FileRow(KeyA, LayerAttr2),
    FileRow(KeyB, LayerAttr1) }

SeqsUpTo(S, n) == UNION {[1..k -> S] : k \in 0..n}

\* the attribute columns a file can lack: a numeric one and a text one
DroppedCols == {"helka", "address"}

\* the tables a file can hold: with every column, without the key column,
\* and (rows of key a) without one attribute column
Tables(keyed, attr, n) ==
  { [cols |-> AllCols, rows |-> Numbered(r)] : r \in SeqsUpTo(keyed, n) }
  \cup
  { [cols |-> AllCols \ {"link"}, rows |-> Numbered(r)] :
      r \in SeqsUpTo({FileRow(None, attr)}, n) }
  \cup
  UNION { { [cols |-> AllCols \ {col}, rows |-> Numbered(r)] :
              r \in SeqsUpTo({[FileRow(KeyA, attr) EXCEPT ![col] = None]}, n) \ {<<>>} } :
            col \in DroppedCols }

\* the recommendations template: one row, no content
TemplateRows == 1

\* the raw cells the normaliser and the comparator are applied to
RawValues ==
  { NaN, EmptyStr, NanText, NullToken, Str(<<"N", "a", "N">>),
    Str(<<"5">>), Str(<<" ", "5", ".", "0">>), Str(<<"5", ".", "5", "0">>),
    IntV(5), Num(5, <<"5">>),
    Str(<<"a", "b">>), Str(<<"A", "b", " ">>), Str(<<" ">>) }

complot_path == <<"c", ".", "c", "s", "v">>

layer_path == <<"l", ".", "x", "l", "s", "x">>

recommendations_path == <<"r", ".", "x", "l", "s", "x">>

\* the output paths a caller can supply: with the extension .xlsx, with
\* another extension, and with .xlsx twice
XlsxPath == <<"o", ".", "x", "l", "s", "x">>

OutputPaths ==
  { XlsxPath,
    <<"o", ".", "x", "l", "s">>,
    <<"o", ".", "x", "l", "s", "x", ".", "x", "l", "s", "x">> }

\* what can be wrong in the environment of a run: an input that cannot be
\* read, an output that cannot be written
Faults ==
  {"complot_unreadable", "layer_unreadable", "template_unreadable",
   "table_unwritable", "report_unwritable"}

\* the files of a run with a fault or an unusual output path
FaultTables(attr, n) ==
  { [cols |-> AllCols, rows |-> Numbered(r)] : r \in SeqsUpTo({FileRow(KeyA, attr)}, n) }
  \cup
  { [cols |-> AllCols \ {"link"}, rows |-> Numbered(r)] :
      r \in SeqsUpTo({FileRow(None, attr)}, n) \ {<<>>} }

RECURSIVE Replace(_, _, _)
\* s.replace(old, new): every occurrence of old, left to right
Replace(s, old, new) ==
  IF Len(s) < Len(old) THEN s
  ELSE IF SubSeq(s, 1, Len(old)) = old
  THEN new \o Replace(SubSeq(s, Len(old) + 1, Len(s)), old, new)
  ELSE <<Head(s)>> \o Replace(Tail(s), old, new)

\* report_path = output_path.replace('.xlsx', '_report.txt')
ReportPath(path) ==
  Replace(path, <<".", "x", "l", "s", "x">>,
          <<"_", "r", "e", "p", "o", "r", "t", ".", "t", "x", "t">>)

\* ------------------------------------------------------------------- state
VARIABLES
  impl,          \* which program runs: "gui", "enhanced" or "basic"
  env,           \* the fault of the environment, or "ok"
  output_path,   \* the output path handed to run
  complot_file,  \* the Complot CSV file
  layer_file,    \* the Layer Excel file
  template_rows, \* number of rows of the recommendations template
  pc,            \* position of the run: new, load, clean, process, save, report, done, failed
  runs,          \* calls of run on the TableFiller so far
  complot_df,    \* self.complot_df
  layer_df,      \* self.layer_df
  filled_df,     \* self.filled_df (its rows)
  report,        \* self.report
  result,        \* the counters of the last process_matches / main
  out_table,     \* the file at the output path: the merged table
  out_report,    \* the file at the report path
  now,           \* the clock read by datetime.now()
  error,         \* the exception that ended the run, or "none"
  val1,          \* first raw cell handed to the normaliser / comparator
  val2,          \* second raw cell
  fpc,           \* position of the function-level run: input, numeric, text, compared
  cleaned,       \* per implementation, the two cells after cleaning
  equal,         \* per implementation, the result of compare_values
  path_vars,     \* the path variables of the window that hold a path
  run_button,    \* state of the Run button: normal or disabled
  threads,       \* worker threads started and not yet ended
  worker,        \* position of the worker thread: idle, started, running
  after_queue,   \* callbacks handed to root.after, not yet called
  started,       \* worker threads started so far
  handled,       \* the terminal messages the foreground has handled
  dialog,        \* the last message box shown
  result_text    \* content of the result text area

\* the state of a pipeline run
pvars == <<impl, env, output_path, complot_file, layer_file, template_rows, pc, runs, complot_df,
           layer_df, filled_df, report, result, out_table, out_report, now, error>>

\* the state of a function-level run
fvars == <<val1, val2, fpc, cleaned, equal>>

\* the state of the window
gvars == <<path_vars, run_button, threads, worker, after_queue, started, handled,
           dialog, result_text>>

vars == <<pvars, fvars, gvars>>

NoTable == [cols |-> {}, rows |-> <<>>]

NoResult ==
  [perfect_matches |-> 0, partial_matches |-> 0, total_rows |-> 0,
   matches_found |-> 0, rows_filled |-> 0]

\* no file at a path
NoFile == [exists |-> FALSE, rows |-> <<>>, lines |-> <<>>]

\* the file to_excel writes / the file the report lines are written to
TableFile(rows) == [exists |-> TRUE, rows |-> rows, lines |-> <<>>]

TextFile(lines) == [exists |-> TRUE, rows |-> <<>>, lines |-> lines]

NoCleaned == [gui |-> <<NaN, NaN>>, enhanced |-> <<NaN, NaN>>, basic |-> <<NaN, NaN>>]

NoEqual == [gui |-> FALSE, enhanced |-> FALSE, basic |-> FALSE]

\* a line of text: a fixed part and a formatted part
Line(text, arg) == [text |-> text, arg |-> arg]

\* the four path variables of the window
PathVars == {"complot_path_var", "layer_path_var", "rec_path_var", "output_path_var"}

\* no summary and no error text
NoText == [kind |-> "empty", result |-> NoResult, error_message |-> "none"]

\* QualityCheckGUI.__init__ and setup_ui: empty path variables, the Run
\* button enabled, nothing running
GuiInit ==
  /\ path_vars = {}
  /\ run_button = "normal"
  /\ threads = 0
  /\ worker = "idle"
  /\ after_queue = <<>>
  /\ started = 0
  /\ handled = <<>>
  /\ dialog = "none"
  /\ result_text = NoText

\* TableFiller.__init__ / the start of the basic script
Init ==
  /\ impl \in {"gui", "enhanced", "basic"}
  /\ env \in {"ok"} \cup Faults
  /\ output_path \in IF impl = "basic" \/ env # "ok" THEN {XlsxPath} ELSE OutputPaths
  /\ complot_file \in IF env = "ok" /\ output_path = XlsxPath
                       THEN Tables(ComplotRows, ComplotAttr1, MaxComplotRows)
                       ELSE FaultTables(ComplotAttr1, MaxFaultRows)
  /\ layer_file \in IF env = "ok" /\ output_path = XlsxPath
                     THEN Tables(LayerRows, LayerAttr1, MaxLayerRows)
                     ELSE FaultTables(LayerAttr1, MaxFaultRows)
  /\ template_rows = TemplateRows
  /\ pc = "new"
  /\ runs = 0
  /\ complot_df = NoTable
  /\ layer_df = NoTable
  /\ filled_df = <<>>
  /\ report = <<>>
  /\ result = NoResult
  /\ out_table = NoFile
  /\ out_report = NoFile
  /\ now = 0
  /\ error = "none"
  /\ val1 = NaN
  /\ val2 = NaN
  /\ fpc = "off"
  /\ cleaned = NoCleaned
  /\ equal = NoEqual
  /\ GuiInit

\* TableFiller.run is called (again) on the instance
Run ==
  /\ impl \in {"gui", "enhanced"}
  /\ pc \in {"new", "done", "failed"}
  /\ runs < MaxRuns
  /\ pc' = "load"
  /\ runs' = runs + 1
  /\ error' = "none"
  /\ UNCHANGED <<impl, env, output_path, complot_file, layer_file, template_rows, complot_df,
                 layer_df, filled_df, report, result, out_table, out_report, now>>
  /\ UNCHANGED fvars
  /\ UNCHANGED gvars

\* mutant of LoadRaises: a template that cannot be read is not noticed
LoadRaises_TemplateIgnored == env \in {"complot_unreadable", "layer_unreadable"}

\* one of the three reads of load_data raises
LoadRaises == env \in {"complot_unreadable", "layer_unreadable", "template_unreadable"}

\* TableFiller.load_data
LoadData ==
  /\ pc = "load"
  /\ complot_df' = IF env = "complot_unreadable" THEN complot_df ELSE complot_file
  /\ layer_df' = IF env \in {"complot_unreadable", "layer_unreadable"} THEN layer_df ELSE layer_file
  /\ report' = IF impl = "enhanced" /\ ~LoadRaises
               THEN report \o
                    << Line("Data Loading Summary:", <<>>),
                       Line("- Complot records: ", Digits(Len(complot_file.rows))),
                       Line("- Layer records: ", Digits(Len(layer_file.rows))),
                       Line("- Recommendations template rows: ", Digits(template_rows)) >>
               ELSE report
  /\ pc' = IF LoadRaises THEN "failed" ELSE "clean"
  /\ error' = IF LoadRaises THEN env ELSE error
  /\ UNCHANGED <<impl, env, output_path, complot_file, layer_file, template_rows, runs,
                 filled_df, result, out_table, out_report, now>>
  /\ UNCHANGED fvars
  /\ UNCHANGED gvars

\* clean_data on one table: the numeric fields, then the text fields
Clean(df) ==
  LET n1 == CleanNumericColumn(df, "helka")
      n2 == CleanNumericColumn(n1, "migrash")
      n3 == CleanNumericColumn(n2, "gush")
      t1 == StripTextColumn(n3, "address")
  IN StripTextColumn(t1, "link")

\* TableFiller.clean_data
CleanData ==
  /\ pc = "clean"
  /\ complot_df' = Clean(complot_df)
  /\ layer_df' = Clean(layer_df)
  /\ pc' = "process"
  /\ UNCHANGED <<impl, env, output_path, complot_file, layer_file, template_rows, runs,
                 filled_df, report, result, out_table, out_report, now, error>>
  /\ UNCHANGED fvars
  /\ UNCHANGED gvars

\* the report lines process_matches of the enhanced script appends
LinkAnalysis(cdf, ldf) ==
  << Line("File Link Analysis:", <<>>),
     Line("- Total unique links: ", Digits(Cardinality(Links(cdf) \cup Links(ldf)))),
     Line("- Complot only: ", Digits(Cardinality(Links(cdf) \ Links(ldf)))),
     Line("- Layer only: ", Digits(Cardinality(Links(ldf) \ Links(cdf)))),
     Line("- In both sources: ", Digits(Cardinality(Links(cdf) \cap Links(ldf)))) >>

MatchResults(r) ==
  << Line("Match Results:", <<>>),
     Line("- Perfect matches: ", Digits(r.perfect_matches)),
     Line("- Partial matches: ", Digits(r.partial_matches)),
     Line("- Total rows: ", Digits(r.total_rows)) >>

\* TableFiller.process_matches
ProcessMatches ==
  /\ pc = "process"
  /\ IF KeyColumnMissing(complot_df, layer_df)
     THEN /\ pc' = "failed"
          /\ error' = "KeyError"
          /\ filled_df' = <<>>
          /\ UNCHANGED <<report, result>>
     ELSE LET r == process_matches(complot_df, layer_df)
          IN /\ pc' = "save"
             /\ error' = error
             /\ filled_df' = r.rows
             /\ result' = [NoResult EXCEPT !.perfect_matches = r.perfect_matches,
                                           !.partial_matches = r.partial_matches,
                                           !.total_rows = r.total_rows]
             /\ report' = IF impl = "enhanced"
                          THEN report \o LinkAnalysis(complot_df, layer_df) \o MatchResults(r)
                          ELSE report
  /\ UNCHANGED <<impl, env, output_path, complot_file, layer_file, template_rows, runs,
                 complot_df, layer_df, out_table, out_report, now>>
  /\ UNCHANGED fvars
  /\ UNCHANGED gvars

\* the four lines every report starts with
Banner(t) ==
  << Line("Automatic Table Filling Report", <<>>),
     Line("==================================================", <<>>),
     Line("Generated: ", Digits(t)),
     Line("==================================================", <<>>),
     Line("", <<>>) >>

\* the four lines the GUI engine writes after the banner, lines 192-195
Metadata ==
  << Line("Complot file: ", complot_path),
     Line("Layer file: ", layer_path),
     Line("Recommendations file: ", recommendations_path),
     Line("Output file: ", output_path) >>

\* the report file save_results writes: the GUI engine the banner and the
\* paths, the enhanced script the banner and self.report
ReportFile(t) ==
  IF impl = "enhanced"
  THEN Banner(t) \o report
  ELSE Banner(t) \o Metadata

\* mutant of SaveTable: the report is written although to_excel raised
SaveTable_ReportAfterFailure ==
  /\ pc = "save"
  /\ IF env = "table_unwritable"
     THEN /\ pc' = "failed"
          /\ error' = env
          /\ out_report' = TextFile(ReportFile(now))
          /\ UNCHANGED out_table
     ELSE /\ pc' = "report"
          /\ error' = error
          /\ out_table' = TableFile(filled_df)
          /\ out_report' = IF ReportPath(output_path) = output_path
                           THEN TableFile(filled_df)
                           ELSE out_report
  /\ UNCHANGED <<impl, env, output_path, complot_file, layer_file, template_rows, runs,
                 complot_df, layer_df, filled_df, report, result, now>>
  /\ UNCHANGED fvars
  /\ UNCHANGED gvars

\* TableFiller.save_results up to the table: to_excel writes the file at the
\* output path, or raises
SaveTable ==
  /\ pc = "save"
  /\ IF env = "table_unwritable"
     THEN /\ pc' = "failed"
          /\ error' = env
          /\ UNCHANGED <<out_table, out_report>>
     ELSE /\ pc' = "report"
          /\ error' = error
          /\ out_table' = TableFile(filled_df)
          /\ out_report' = IF ReportPath(output_path) = output_path
                           THEN TableFile(filled_df)
                           ELSE out_report
  /\ UNCHANGED <<impl, env, output_path, complot_file, layer_file, template_rows, runs,
                 complot_df, layer_df, filled_df, report, result, now>>
  /\ UNCHANGED fvars
  /\ UNCHANGED gvars

\* TableFiller.save_results from the report on: open(report_path, 'w') and
\* the writes, or open raises
SaveReport ==
  /\ pc = "report"
  /\ IF env = "report_unwritable"
     THEN /\ pc' = "failed"
          /\ error' = env
          /\ UNCHANGED <<out_table, out_report, now>>
     ELSE /\ pc' = "done"
          /\ error' = error
          /\ out_report' = TextFile(ReportFile(now))
          /\ out_table' = IF ReportPath(output_path) = output_path
                          THEN TextFile(ReportFile(now))
                          ELSE out_table
          /\ now' = now + 1
  /\ UNCHANGED <<impl, env, output_path, complot_file, layer_file, template_rows, runs,
                 complot_df, layer_df, filled_df, report, result>>
  /\ UNCHANGED fvars
  /\ UNCHANGED gvars

\* one execution of the basic script: main
BasicMain ==
  /\ impl = "basic"
  /\ pc \in {"new", "done", "failed"}
  /\ complot_df' = IF LoadRaises THEN complot_df ELSE CleanBasic(complot_file)
  /\ layer_df' = IF LoadRaises THEN layer_df ELSE CleanBasic(layer_file)
  /\ IF LoadRaises \/ MainRaises(complot_file, layer_file)
     THEN /\ pc' = "failed"
          /\ error' = IF LoadRaises THEN env ELSE "KeyError"
          /\ UNCHANGED <<filled_df, result, out_table>>
     ELSE \E order \in Orders(all_file_links(complot_df', layer_df')) :
            LET r == main(complot_df', layer_df', template_rows, order)
            IN /\ pc' = IF env = "table_unwritable" THEN "failed" ELSE "done"
               /\ error' = IF env = "table_unwritable" THEN env ELSE "none"
               /\ filled_df' = r.rows
               /\ result' = [NoResult EXCEPT !.matches_found = r.matches_found,
                                             !.rows_filled = r.rows_filled]
               /\ out_table' = IF env = "table_unwritable" THEN out_table ELSE TableFile(r.rows)
  /\ UNCHANGED <<impl, env, output_path, complot_file, layer_file, template_rows, runs, report, out_report, now>>
  /\ UNCHANGED fvars
  /\ UNCHANGED gvars

Next ==
  \/ Run
  \/ LoadData
  \/ CleanData
  \/ ProcessMatches
  \/ SaveTable
  \/ SaveReport
  \/ BasicMain

Spec == Init /\ [][Next]_vars

\* ------------------------------------------- the functions on their own
\* the enhanced script's clean_numeric_field (same text as the GUI engine's)
clean_numeric_field_enhanced(value) ==
  IF isna(value) \/ value = NullToken \/ value = NanText \/ value = EmptyStr
  THEN NaN
  ELSE IF FloatRaises(value) THEN value ELSE Float(value)

\* the enhanced script's compare_values (same text as the GUI engine's)
compare_values_enhanced(val1_, val2_) ==
  IF isna(val1_) /\ isna(val2_) THEN TRUE
  ELSE IF isna(val1_) \/ isna(val2_) THEN FALSE
  ELSE Lower(Strip(PyStr(val1_))) = Lower(Strip(PyStr(val2_)))

Impls == {"gui", "enhanced", "basic"}

\* two raw cells of one field, one from each source
InitFn ==
  /\ val1 \in RawValues
  /\ val2 \in RawValues
  /\ fpc = "input"
  /\ cleaned = NoCleaned
  /\ equal = NoEqual
  /\ impl = "gui"
  /\ env = "ok"
  /\ output_path = XlsxPath
  /\ complot_file = NoTable
  /\ layer_file = NoTable
  /\ template_rows = TemplateRows
  /\ pc = "off"
  /\ runs = 0
  /\ complot_df = NoTable
  /\ layer_df = NoTable
  /\ filled_df = <<>>
  /\ report = <<>>
  /\ result = NoResult
  /\ out_table = NoFile
  /\ out_report = NoFile
  /\ now = 0
  /\ error = "none"
  /\ GuiInit

\* the cells are cells of a numeric field: clean_numeric_field is applied
CleanNumeric ==
  /\ fpc = "input"
  /\ cleaned' = [gui |-> <<clean_numeric_field(val1), clean_numeric_field(val2)>>,
                 enhanced |-> <<clean_numeric_field_enhanced(val1), clean_numeric_field_enhanced(val2)>>,
                 basic |-> <<clean_numeric_field_basic(val1), clean_numeric_field_basic(val2)>>]
  /\ fpc' = "numeric"
  /\ UNCHANGED <<val1, val2, equal>>
  /\ UNCHANGED pvars
  /\ UNCHANGED gvars

\* the cells are cells of the address field: the TableFiller classes strip
\* them, the basic script leaves them as read
CleanText ==
  /\ fpc = "input"
  /\ cleaned' = [gui |-> <<strip_text(val1), strip_text(val2)>>,
                 enhanced |-> <<strip_text(val1), strip_text(val2)>>,
                 basic |-> <<val1, val2>>]
  /\ fpc' = "text"
  /\ UNCHANGED <<val1, val2, equal>>
  /\ UNCHANGED pvars
  /\ UNCHANGED gvars

\* compare_values is applied to the two cleaned cells
CompareValues ==
  /\ fpc \in {"numeric", "text"}
  /\ equal' = [gui |-> compare_values(cleaned.gui[1], cleaned.gui[2]),
               enhanced |-> compare_values_enhanced(cleaned.enhanced[1], cleaned.enhanced[2]),
               basic |-> compare_values_basic(cleaned.basic[1], cleaned.basic[2])]
  /\ fpc' = IF fpc = "numeric" THEN "compared_numeric" ELSE "compared_text"
  /\ UNCHANGED <<val1, val2, cleaned>>
  /\ UNCHANGED pvars
  /\ UNCHANGED gvars

NextFn ==
  \/ CleanNumeric
  \/ CleanText
  \/ CompareValues

SpecFn == InitFn /\ [][NextFn]_vars

\* ------------------------------------------------------------- the window
\* the files and the environment of a session of the window
InitGui ==
  /\ impl = "gui"
  /\ env \in {"ok"} \cup Faults
  /\ output_path \in IF env # "ok" THEN {XlsxPath} ELSE OutputPaths
  /\ complot_file \in FaultTables(ComplotAttr1, MaxFaultRows)
  /\ layer_file \in FaultTables(LayerAttr1, MaxFaultRows)
  /\ template_rows = TemplateRows
  /\ pc = "new"
  /\ runs = 0
  /\ complot_df = NoTable
  /\ layer_df = NoTable
  /\ filled_df = <<>>
  /\ report = <<>>
  /\ result = NoResult
  /\ out_table = NoFile
  /\ out_report = NoFile
  /\ now = 0
  /\ error = "none"
  /\ val1 = NaN
  /\ val2 = NaN
  /\ fpc = "off"
  /\ cleaned = NoCleaned
  /\ equal = NoEqual
  /\ GuiInit

\* browse_complot, browse_layer, browse_rec, browse_output with a file chosen
Browse ==
  /\ \E v \in PathVars : path_vars' = path_vars \cup {v}
  /\ path_vars' # path_vars
  /\ UNCHANGED <<run_button, threads, worker, after_queue, started, handled, dialog,
                 result_text>>
  /\ UNCHANGED pvars
  /\ UNCHANGED fvars

\* the message of the first test of run_process that fails, lines 330-341
Rejection ==
  IF "complot_path_var" \notin path_vars THEN "Please select Complot CSV file"
  ELSE IF "layer_path_var" \notin path_vars THEN "Please select Layer Excel file"
  ELSE IF "rec_path_var" \notin path_vars THEN "Please select Recommendations template file"
  ELSE IF "output_path_var" \notin path_vars THEN "Please select output file location"
  ELSE "none"

\* mutant of RunProcess: the Run button is left enabled
RunProcess_ButtonLeftEnabled ==
  /\ run_button = "normal"
  /\ started < MaxRuns
  /\ IF Rejection # "none"
     THEN /\ dialog' = Rejection
          /\ dialog' # dialog
          /\ UNCHANGED <<run_button, threads, worker, started>>
     ELSE /\ run_button' = "normal"
          /\ threads' = threads + 1
          /\ worker' = "started"
          /\ started' = started + 1
          /\ UNCHANGED dialog
  /\ UNCHANGED <<path_vars, after_queue, handled, result_text>>
  /\ UNCHANGED pvars
  /\ UNCHANGED fvars

\* run_process, the command of the Run button (a disabled button does not
\* call it): an error box when a path is missing, else the button is
\* disabled and the worker thread started
RunProcess ==
  /\ run_button = "normal"
  /\ started < MaxRuns
  /\ IF Rejection # "none"
     THEN /\ dialog' = Rejection
          /\ dialog' # dialog
          /\ UNCHANGED <<run_button, threads, worker, started>>
     ELSE /\ run_button' = "disabled"
          /\ threads' = threads + 1
          /\ worker' = "started"
          /\ started' = started + 1
          /\ UNCHANGED dialog
  /\ UNCHANGED <<path_vars, after_queue, handled, result_text>>
  /\ UNCHANGED pvars
  /\ UNCHANGED fvars

\* _process_thread up to the call of run: a new TableFiller, lines 354-360
ProcessThread ==
  /\ worker = "started"
  /\ worker' = "running"
  /\ pc' = "load"
  /\ runs' = 1
  /\ complot_df' = NoTable
  /\ layer_df' = NoTable
  /\ filled_df' = <<>>
  /\ report' = <<>>
  /\ result' = NoResult
  /\ error' = "none"
  /\ UNCHANGED <<impl, env, output_path, complot_file, layer_file, template_rows,
                 out_table, out_report, now>>
  /\ UNCHANGED <<path_vars, run_button, threads, after_queue, started, handled, dialog,
                 result_text>>
  /\ UNCHANGED fvars

\* the callback handed to root.after
Callback(handler, res, message) ==
  [handler |-> handler, run |-> started, result |-> res, error_message |-> message]

\* _process_thread after run returned: line 363, and the thread ends
PostSuccess ==
  /\ worker = "running"
  /\ pc = "done"
  /\ after_queue' = Append(after_queue, Callback("_update_ui_success", result, "none"))
  /\ worker' = "idle"
  /\ threads' = threads - 1
  /\ UNCHANGED <<path_vars, run_button, started, handled, dialog, result_text>>
  /\ UNCHANGED pvars
  /\ UNCHANGED fvars

\* mutant of PostError: the exception is swallowed, no callback is handed over
PostError_Silent ==
  /\ worker = "running"
  /\ pc = "failed"
  /\ worker' = "idle"
  /\ threads' = threads - 1
  /\ UNCHANGED <<path_vars, run_button, after_queue, started, handled, dialog, result_text>>
  /\ UNCHANGED pvars
  /\ UNCHANGED fvars

\* _process_thread after run raised: lines 365-367, and the thread ends
PostError ==
  /\ worker = "running"
  /\ pc = "failed"
  /\ after_queue' = Append(after_queue, Callback("_update_ui_error", NoResult, error))
  /\ worker' = "idle"
  /\ threads' = threads - 1
  /\ UNCHANGED <<path_vars, run_button, started, handled, dialog, result_text>>
  /\ UNCHANGED pvars
  /\ UNCHANGED fvars

\* _update_ui_success, called by the main loop
UpdateUiSuccess ==
  /\ after_queue # <<>>
  /\ Head(after_queue).handler = "_update_ui_success"
  /\ result_text' = [kind |-> "summary", result |-> Head(after_queue).result,
                     error_message |-> "none"]
  /\ run_button' = "normal"
  /\ dialog' = "Quality check completed successfully!"
  /\ handled' = Append(handled, Head(after_queue))
  /\ after_queue' = Tail(after_queue)
  /\ UNCHANGED <<path_vars, threads, worker, started>>
  /\ UNCHANGED pvars
  /\ UNCHANGED fvars

\* _update_ui_error, called by the main loop
UpdateUiError ==
  /\ after_queue # <<>>
  /\ Head(after_queue).handler = "_update_ui_error"
  /\ result_text' = [kind |-> "error", result |-> NoResult,
                     error_message |-> Head(after_queue).error_message]
  /\ run_button' = "normal"
  /\ dialog' = "An error occurred"
  /\ handled' = Append(handled, Head(after_queue))
  /\ after_queue' = Tail(after_queue)
  /\ UNCHANGED <<path_vars, threads, worker, started>>
  /\ UNCHANGED pvars
  /\ UNCHANGED fvars

\* a step of TableFiller.run in the worker thread: run goes on to its next
\* method, returns or raises
RunAdvances ==
  /\ worker = "running"
  /\ pc \in {"load", "clean", "process", "save", "report"}
  /\ pc' \in {"clean", "process", "save", "report", "done", "failed"}

\* _process_thread hands over the callback and ends
ThreadEnds ==
  \/ PostSuccess
  \/ PostError

\* the callbacks the main loop calls
MainLoopStep ==
  \/ UpdateUiSuccess
  \/ UpdateUiError

NextGui ==
  \/ Browse
  \/ RunProcess
  \/ ProcessThread
  \/ LoadData
  \/ CleanData
  \/ ProcessMatches
  \/ SaveTable
  \/ SaveReport
  \/ PostSuccess
  \/ PostError
  \/ UpdateUiSuccess
  \/ UpdateUiError

SpecGui == InitGui /\ [][NextGui]_vars

\* the worker thread is scheduled: it begins, every method run calls comes
\* to its end (run goes on, returns or raises), and the thread hands over
\* its callback; the main loop calls the callbacks handed to root.after
SpecGuiFair ==
  /\ SpecGui
  /\ WF_vars(ProcessThread)
  /\ WF_pc(RunAdvances)
  /\ WF_vars(ThreadEnds)
  /\ WF_vars(MainLoopStep)

\* ================================================================== claims
\* the TableFiller classes, whose run goes through process_matches
TableFillers == {"gui", "enhanced"}

\* process_matches has returned in the current run
Processed ==
  /\ impl \in TableFillers
  /\ \/ pc \in {"save", "report", "done"}
     \/ pc = "failed" /\ error \in {"table_unwritable", "report_unwritable"}

\* the text between the first and the last character that is not a space
TrimmedText(s) ==
  LET idx == {i \in 1..Len(s) : s[i] # " "}
  IN IF idx = {} THEN <<>>
     ELSE SubSeq(s, CHOOSE i \in idx : \A j \in idx : i <= j,
                    CHOOSE i \in idx : \A j \in idx : i >= j)

\* the upper-case / lower-case pairs of the model's letters
CasePairs == {<<"A", "a">>, <<"B", "b">>, <<"N", "n">>, <<"T", "t">>, <<"F", "f">>}

\* equal up to letter case
EqIgnoringCase(s, t) ==
  /\ Len(s) = Len(t)
  /\ \A i \in 1..Len(s) :
       s[i] = t[i] \/ <<s[i], t[i]>> \in CasePairs \/ <<t[i], s[i]>> \in CasePairs

\* the non-null keys of a source file as the program in charge sees them:
\* trimmed by the TableFiller classes, as read by the basic script
KeysOf(file) ==
  IF "link" \notin file.cols THEN {}
  ELSE { IF impl \in TableFillers THEN Str(TrimmedText(file.rows[i].link.s)) ELSE file.rows[i].link :
           i \in {j \in 1..Len(file.rows) : file.rows[j].link.kind = "str"} }

PrimaryKeys == KeysOf(complot_file)

SecondaryKeys == KeysOf(layer_file)

\* the key a merged row stands for
RowKey(row) == IF ~isna(row.c_link) THEN row.c_link ELSE row.l_link

RowsOf(k) == {i \in 1..Len(filled_df) : RowKey(filled_df[i]) = k}

\* a file holds a row with a null key / two rows with the same key
HasNullKey(file) == \E i \in 1..Len(file.rows) : file.rows[i].link.kind = "nan"

HasDuplicateKey(file) ==
  \E i, j \in 1..Len(file.rows) :
    /\ i < j
    /\ file.rows[i].link.kind = "str"
    /\ file.rows[j].link.kind = "str"
    /\ TrimmedText(file.rows[i].link.s) = TrimmedText(file.rows[j].link.s)

\* C1: after process_matches, total_rows (and the number of merged rows) is
\* the size of the union of the two sources' non-null key sets, and every
\* key of the union has exactly one merged row.
C1_UnionOfKeys ==
  Processed =>
    /\ result.total_rows = Cardinality(PrimaryKeys \cup SecondaryKeys)
    /\ Len(filled_df) = result.total_rows
    /\ \A k \in PrimaryKeys \cup SecondaryKeys : Cardinality(RowsOf(k)) = 1

C1_Witness ==
  /\ Processed
  /\ HasNullKey(complot_file)
  /\ HasDuplicateKey(layer_file)
  /\ PrimaryKeys # {}
  /\ PrimaryKeys # SecondaryKeys
  /\ result.total_rows = 2

\* the classification a note expresses
NoteClasses(row) ==
  {c \in {"both-match", "both-mismatch", "primary-only", "secondary-only"} :
     \/ c = "both-match" /\ row.notes = NoteFullMatch
     \/ c = "both-mismatch" /\ row.notes.kind = "str" /\ row.notes.s # <<>>
                            /\ <<Head(row.notes.s)>> = MismatchPrefix
     \/ c = "primary-only" /\ row.notes = NoteComplotOnly
     \/ c = "secondary-only" /\ row.notes = NoteLayerOnly}

\* C2: every merged row produced by process_matches carries, through its
\* note, exactly one of the four classifications.
C2_OneClassification ==
  Processed => \A i \in 1..Len(filled_df) : Cardinality(NoteClasses(filled_df[i])) = 1

C2_Witness ==
  /\ Processed
  /\ Cardinality(UNION {NoteClasses(filled_df[i]) : i \in 1..Len(filled_df)}) = 3

NoFlags(row) ==
  /\ isna(row.cmp_link)
  /\ isna(row.cmp_gush)
  /\ isna(row.cmp_helka)
  /\ isna(row.cmp_migrash)
  /\ isna(row.cmp_address)

NoComplotFields(row) ==
  /\ isna(row.c_link)
  /\ isna(row.c_disk)
  /\ isna(row.c_gush)
  /\ isna(row.c_helka)
  /\ isna(row.c_migrash)
  /\ isna(row.c_address)

NoLayerFields(row) ==
  /\ isna(row.l_link)
  /\ isna(row.l_gush)
  /\ isna(row.l_helka)
  /\ isna(row.l_migrash)
  /\ isna(row.l_address)

\* C3: a key found in exactly one source has a merged row with the fixed
\* note of that source, no comparison flag, and no field of the other source.
C3_SingleSource ==
  Processed =>
    /\ \A k \in PrimaryKeys \ SecondaryKeys :
         /\ RowsOf(k) # {}
         /\ \A i \in RowsOf(k) :
              /\ filled_df[i].notes = NoteComplotOnly
              /\ NoFlags(filled_df[i])
              /\ NoLayerFields(filled_df[i])
    /\ \A k \in SecondaryKeys \ PrimaryKeys :
         /\ RowsOf(k) # {}
         /\ \A i \in RowsOf(k) :
              /\ filled_df[i].notes = NoteLayerOnly
              /\ NoFlags(filled_df[i])
              /\ NoComplotFields(filled_df[i])

C3_Witness ==
  /\ Processed
  /\ PrimaryKeys \ SecondaryKeys # {}
  /\ SecondaryKeys \ PrimaryKeys # {}
  /\ PrimaryKeys \cap SecondaryKeys # {}

AllFlagsTrue(row) ==
  /\ row.cmp_gush = True
  /\ row.cmp_helka = True
  /\ row.cmp_migrash = True
  /\ row.cmp_address = True

\* the merged table of the current run is complete (any of the three programs)
Reconciled == Processed \/ (impl = "basic" /\ pc = "done")

\* C4: for a key found in both sources the key flag is true, and the row has
\* the fixed full-match note exactly when the four attribute flags are true;
\* otherwise its note is a mismatch note.
C4_BothSources ==
  Reconciled =>
    \A k \in PrimaryKeys \cap SecondaryKeys :
      /\ RowsOf(k) # {}
      /\ \A i \in RowsOf(k) :
           /\ filled_df[i].cmp_link = True
           /\ AllFlagsTrue(filled_df[i]) <=> filled_df[i].notes = NoteFullMatch
           /\ ~AllFlagsTrue(filled_df[i]) =>
                /\ filled_df[i].notes.kind = "str"
                /\ filled_df[i].notes # NoteFullMatch

\* the function-level run has applied compare_values
Compared == fpc \in {"compared_numeric", "compared_text"}

\* C5: in every implementation the comparison flag of two absent values is
\* true, and the flag of an absent and a present value is false.
C5_NullAware ==
  Compared =>
    \A m \in Impls :
      /\ (isna(cleaned[m][1]) /\ isna(cleaned[m][2])) => equal[m]
      /\ (isna(cleaned[m][1]) # isna(cleaned[m][2])) => ~equal[m]

C5_Witness ==
  /\ fpc = "compared_numeric"
  /\ val1 = NullToken
  /\ val2 = Str(<<"5">>)
  /\ \A m \in Impls : isna(cleaned[m][1]) /\ ~isna(cleaned[m][2]) /\ ~equal[m]

\* C6: in every implementation two present values compare equal exactly
\* when their string forms are equal after trimming and ignoring case.
C6_TrimmedCaseInsensitive ==
  Compared =>
    \A m \in Impls :
      (~isna(cleaned[m][1]) /\ ~isna(cleaned[m][2])) =>
        (equal[m] <=> EqIgnoringCase(TrimmedText(PyStr(cleaned[m][1])),
                                     TrimmedText(PyStr(cleaned[m][2]))))

\* the raw values the numeric normalisation must turn into absent
AbsentMarkers == {NaN, EmptyStr, NanText, NullToken}

\* C7: in every implementation clean_numeric_field returns absent for a
\* null, the empty string, the text "nan" and the token "<Null>".
C7_AbsentMarkers ==
  fpc = "numeric" =>
    \A m \in Impls :
      /\ val1 \in AbsentMarkers => isna(cleaned[m][1])
      /\ val2 \in AbsentMarkers => isna(cleaned[m][2])

\* the position of the first row of the file whose trimmed key is k
FirstIndex(file, k) ==
  CHOOSE i \in 1..Len(file.rows) :
    /\ file.rows[i].link.kind = "str"
    /\ TrimmedText(file.rows[i].link.s) = k.s
    /\ \A j \in 1..(i - 1) :
         ~(file.rows[j].link.kind = "str" /\ TrimmedText(file.rows[j].link.s) = k.s)

\* row i of the file repeats the key of an earlier row
IsLaterDuplicate(file, i) ==
  /\ file.rows[i].link.kind = "str"
  /\ \E j \in 1..(i - 1) :
       /\ file.rows[j].link.kind = "str"
       /\ TrimmedText(file.rows[j].link.s) = TrimmedText(file.rows[i].link.s)

RECURSIVE WithoutLaterDuplicates(_, _)
\* the rows of the file from position i on, later duplicates left out
WithoutLaterDuplicates(file, i) ==
  IF i > Len(file.rows) THEN <<>>
  ELSE (IF IsLaterDuplicate(file, i) THEN <<>> ELSE <<file.rows[i]>>)
       \o WithoutLaterDuplicates(file, i + 1)

KeepFirst(file) == [file EXCEPT !.rows = WithoutLaterDuplicates(file, 1)]

\* C8: the merged row of a key takes its Complot fields and its Layer fields
\* from the first row with that key in each file, and the whole outcome
\* (rows, flags, notes, counters) is the outcome for the files with every
\* later duplicate removed.
C8_FirstSeenWins ==
  Processed =>
    /\ \A k \in PrimaryKeys : \A i \in RowsOf(k) :
         LET first == complot_file.rows[FirstIndex(complot_file, k)]
         IN /\ filled_df[i].c_disk = first.disk
            /\ filled_df[i].c_gush = clean_numeric_field(first.gush)
            /\ "helka" \in complot_file.cols =>
                 filled_df[i].c_helka = clean_numeric_field(first.helka)
    /\ \A k \in SecondaryKeys : \A i \in RowsOf(k) :
         LET first == layer_file.rows[FirstIndex(layer_file, k)]
         IN /\ filled_df[i].l_gush = clean_numeric_field(first.gush)
            /\ "helka" \in layer_file.cols =>
                 filled_df[i].l_helka = clean_numeric_field(first.helka)
    /\ LET r == process_matches(Clean(KeepFirst(complot_file)), Clean(KeepFirst(layer_file)))
       IN /\ filled_df = r.rows
          /\ result.perfect_matches = r.perfect_matches
          /\ result.partial_matches = r.partial_matches
          /\ result.total_rows = r.total_rows

C8_Witness ==
  /\ Processed
  /\ \E i \in 1..Len(complot_file.rows) :
       /\ IsLaterDuplicate(complot_file, i)
       /\ complot_file.rows[i].gush # complot_file.rows[1].gush
  /\ \E i \in 1..Len(layer_file.rows) :
       /\ IsLaterDuplicate(layer_file, i)
       /\ layer_file.rows[i].gush # layer_file.rows[1].gush
  /\ PrimaryKeys = SecondaryKeys

\* two reports agree on every line but the "Generated:" line
SameApartFromTimestamp(r1, r2) ==
  /\ Len(r1) = Len(r2)
  /\ \A i \in 1..Len(r1) :
       r1[i] = r2[i] \/ (r1[i].text = "Generated: " /\ r2[i].text = "Generated: ")

\* the rows of a written table follow the sorted order of their keys
InKeyOrder(table) ==
  \A i, j \in 1..Len(table) : i < j => StrLess(RowKey(table[i]).s, RowKey(table[j]).s)

\* C9: every run on the unchanged inputs writes its rows in sorted key
\* order, and a run that finds the output of an earlier run replaces it by
\* the same table and, apart from the timestamp line, the same report.
C9_Deterministic ==
  [][ /\ out_table'.exists => InKeyOrder(out_table'.rows)
      /\ out_table.exists => out_table' = out_table
      /\ out_report.exists =>
           /\ out_report'.exists
           /\ SameApartFromTimestamp(out_report.lines, out_report'.lines) ]_vars

\* C10: when the key column is missing from exactly one source the run does
\* not fail, and every key of the other source gets a merged row that holds
\* only that source's fields and no comparison flag.
C10_MissingKeyColumn ==
  /\ (env = "ok" /\ "link" \notin complot_file.cols /\ "link" \in layer_file.cols) =>
       /\ pc # "failed"
       /\ Reconciled =>
            \A k \in SecondaryKeys :
              /\ RowsOf(k) # {}
              /\ \A i \in RowsOf(k) : NoComplotFields(filled_df[i]) /\ NoFlags(filled_df[i])
  /\ (env = "ok" /\ "link" \in complot_file.cols /\ "link" \notin layer_file.cols) =>
       /\ pc # "failed"
       /\ Reconciled =>
            \A k \in PrimaryKeys :
              /\ RowsOf(k) # {}
              /\ \A i \in RowsOf(k) : NoLayerFields(filled_df[i]) /\ NoFlags(filled_df[i])

\* the comparison flag and the two cells of a compared field in a merged row
FlagOf(row, f) ==
  CASE f = "gush" -> row.cmp_gush
    [] f = "helka" -> row.cmp_helka
    [] f = "migrash" -> row.cmp_migrash
    [] f = "address" -> row.cmp_address

ComplotCell(row, f) ==
  CASE f = "gush" -> row.c_gush
    [] f = "helka" -> row.c_helka
    [] f = "migrash" -> row.c_migrash
    [] f = "address" -> row.c_address

LayerCell(row, f) ==
  CASE f = "gush" -> row.l_gush
    [] f = "helka" -> row.l_helka
    [] f = "migrash" -> row.l_migrash
    [] f = "address" -> row.l_address

ComparedFields == {"gush", "helka", "migrash", "address"}

\* the value of field f of a merged row is absent in the Complot / Layer source
AbsentInComplot(row, f) == f \notin complot_file.cols \/ isna(ComplotCell(row, f))

AbsentInLayer(row, f) == f \notin layer_file.cols \/ isna(LayerCell(row, f))

\* a source lacks one of the four compared columns; both have the key
\* column, and every file can be read and written
ComparedColumnMissing ==
  /\ env = "ok"
  /\ "link" \in complot_file.cols
  /\ "link" \in layer_file.cols
  /\ \E f \in ComparedFields : f \notin complot_file.cols \/ f \notin layer_file.cols

\* C11: when a source lacks one of the four compared columns the run does not
\* fail, and the field's flag in every row of a key of both sources is true
\* exactly when the other source's value is absent too.
C11_MissingAttributeColumn ==
  ComparedColumnMissing =>
    /\ pc # "failed"
    /\ Reconciled =>
         \A k \in PrimaryKeys \cap SecondaryKeys : \A i \in RowsOf(k) : \A f \in ComparedFields :
           /\ f \notin complot_file.cols => FlagOf(filled_df[i], f) = Bool(AbsentInLayer(filled_df[i], f))
           /\ f \notin layer_file.cols => FlagOf(filled_df[i], f) = Bool(AbsentInComplot(filled_df[i], f))

\* the report file is a file of its own
OwnReportFile == ReportPath(output_path) # output_path

\* C12: save_results writes the report only once the table of the run is
\* written; when writing the table fails the report file is left as it was;
\* and whenever the report file exists the table file exists.
C12_TableBeforeReport ==
  [][ (impl \in TableFillers /\ OwnReportFile) =>
        /\ out_report' # out_report => pc = "report" /\ out_table = TableFile(filled_df)
        /\ (pc = "save" /\ pc' = "failed") => out_report' = out_report
        /\ out_report'.exists => out_table'.exists ]_vars

C12_Witness ==
  /\ impl \in TableFillers
  /\ OwnReportFile
  /\ pc = "failed"
  /\ error = "table_unwritable"
  /\ filled_df # <<>>
  /\ ~out_report.exists

\* one of the three input files cannot be read
InputUnreadable ==
  env \in {"complot_unreadable", "layer_unreadable", "template_unreadable"}

\* a step of a run that leaves the output files alone unless it is a step of
\* save_results after load_data, clean_data and process_matches completed,
\* and that ends a run whose input cannot be read with that one failure
OutputOnlyAfterProcessing ==
  impl \in TableFillers =>
    /\ InputUnreadable =>
         /\ ~out_table'.exists
         /\ ~out_report'.exists
         /\ pc' \in {"load", "failed"}
         /\ pc' = "failed" => error' = env
    /\ (out_table' # out_table \/ out_report' # out_report) =>
         /\ pc \in {"save", "report"}
         /\ complot_df = Clean(complot_file)
         /\ layer_df = Clean(layer_file)
         /\ filled_df = process_matches(complot_df, layer_df).rows

\* C13: when an input cannot be read the run ends with that one failure and
\* no output file is ever written; and every write to the output path or the
\* report path is made by save_results after load_data, clean_data and
\* process_matches have completed on the input files.
C13_NoOutputBeforeProcessing == [][OutputOnlyAfterProcessing]_vars

C13_Witness ==
  /\ impl \in TableFillers
  /\ env = "template_unreadable"
  /\ pc = "failed"
  /\ runs = MaxRuns
  /\ complot_df = complot_file
  /\ complot_file.rows # <<>>
  /\ ~out_table.exists
  /\ ~out_report.exists

\* the position of the last dot of a path, 0 when it has none
LastDot(path) ==
  LET dots == {i \in 1..Len(path) : path[i] = "."}
  IN IF dots = {} THEN 0 ELSE CHOOSE i \in dots : \A j \in dots : i >= j

\* the path with its extension replaced by _report.txt
WithExtensionReplaced(path) ==
  (IF LastDot(path) = 0 THEN path ELSE SubSeq(path, 1, LastDot(path) - 1))
  \o <<"_", "r", "e", "p", "o", "r", "t", ".", "t", "x", "t">>

\* C14: for every output path the report path is the output path with its
\* extension replaced by _report.txt, it differs from the output path, and a
\* finished run leaves the merged table at the output path.
C14_ReportPath ==
  impl \in TableFillers =>
    /\ ReportPath(output_path) = WithExtensionReplaced(output_path)
    /\ ReportPath(output_path) # output_path
    /\ pc = "done" => out_table = TableFile(filled_df)

RECURSIVE IsSubsequence(_, _)
\* the lines of a occur in b, in the order of a
IsSubsequence(a, b) ==
  IF a = <<>> THEN TRUE
  ELSE IF b = <<>> THEN FALSE
  ELSE IF Head(a) = Head(b) THEN IsSubsequence(Tail(a), Tail(b))
  ELSE IsSubsequence(a, Tail(b))

\* a run has finished and has written the report to a file of its own
ReportWritten == impl \in TableFillers /\ pc = "done" /\ OwnReportFile

\* C16: the written report starts with the banner and holds, after it and in
\* this order, the lines of the four paths and the lines of the counts of
\* the run (perfect matches, partial matches, total rows).
C16_ReportContent ==
  ReportWritten =>
    /\ SubSeq(out_report.lines, 1, Len(Banner(now - 1))) = Banner(now - 1)
    /\ IsSubsequence(Banner(now - 1) \o Metadata \o MatchResults(result), out_report.lines)

\* the value of field f of a merged row as each source holds it: the cell,
\* or None when the source has no such column
PrimaryValue(row, f) == IF f \in complot_file.cols THEN ComplotCell(row, f) ELSE None

SecondaryValue(row, f) == IF f \in layer_file.cols THEN LayerCell(row, f) ELSE None

\* the note's entry of a field whose flag is false: block, parcel and plot
\* with both values, primary first; the address by name only
NoteEntry(row, f) ==
  IF f = "address" THEN <<"ktovet">>
  ELSE <<f, " (">> \o PyStr(PrimaryValue(row, f)) \o <<" != ">>
       \o PyStr(SecondaryValue(row, f)) \o <<")">>

RECURSIVE NoteEntries(_, _)
\* the entries of the fields of fs, in the order of fs, whose flag is false
NoteEntries(row, fs) ==
  IF fs = <<>> THEN <<>>
  ELSE (IF FlagOf(row, Head(fs)) = False THEN <<NoteEntry(row, Head(fs))>> ELSE <<>>)
       \o NoteEntries(row, Tail(fs))

RECURSIVE CommaSeparated(_)
CommaSeparated(entries) ==
  IF entries = <<>> THEN <<>>
  ELSE IF Tail(entries) = <<>> THEN Head(entries)
  ELSE Head(entries) \o <<", ">> \o CommaSeparated(Tail(entries))

\* C17: for a key of both sources with an unequal attribute the note is the
\* mismatch prefix followed by one entry for each field whose flag is false,
\* and for no other field, in the order block, parcel, plot, address; the
\* entries of block, parcel and plot echo the primary and then the secondary
\* value, the entry of the address is its name alone.
C17_MismatchNote ==
  Processed =>
    \A k \in PrimaryKeys \cap SecondaryKeys : \A i \in RowsOf(k) :
      ~AllFlagsTrue(filled_df[i]) =>
        filled_df[i].notes =
          Str(MismatchPrefix \o
              CommaSeparated(NoteEntries(filled_df[i], <<"gush", "helka", "migrash", "address">>)))

C17_Witness ==
  /\ Processed
  /\ \E i \in 1..Len(filled_df) :
       /\ filled_df[i].cmp_gush = False
       /\ filled_df[i].cmp_helka = False
       /\ filled_df[i].cmp_migrash = True
       /\ filled_df[i].cmp_address = False
       /\ filled_df[i].c_gush # filled_df[i].l_gush

\* the merged rows of keys of both sources whose attributes all agree / do
\* not all agree
BothMatchRows ==
  {i \in 1..Len(filled_df) : filled_df[i].cmp_link = True /\ AllFlagsTrue(filled_df[i])}

BothMismatchRows ==
  {i \in 1..Len(filled_df) : filled_df[i].cmp_link = True /\ ~AllFlagsTrue(filled_df[i])}

\* the keys found in one source only
SingleSourceKeys ==
  (PrimaryKeys \cup SecondaryKeys) \ (PrimaryKeys \cap SecondaryKeys)

\* C18: perfect_matches is the number of both-match rows, partial_matches
\* the number of both-mismatch rows, their sum the number of keys of both
\* sources, and total_rows minus the sum the number of single-source keys.
C18_Counters ==
  Processed =>
    /\ result.perfect_matches = Cardinality(BothMatchRows)
    /\ result.partial_matches = Cardinality(BothMismatchRows)
    /\ result.perfect_matches + result.partial_matches
         = Cardinality(PrimaryKeys \cap SecondaryKeys)
    /\ result.total_rows - (result.perfect_matches + result.partial_matches)
         = Cardinality(SingleSourceKeys)

C18_Witness ==
  /\ Processed
  /\ result.partial_matches = 1
  /\ result.total_rows = 3
  /\ Cardinality(BothMismatchRows) = 1
  /\ Cardinality(SingleSourceKeys) = 2

\* text that reads as a number: digits with at most one dot and at least one
\* digit, or "nan" in any letter case, spaces around it allowed
NumberText(s) ==
  LET t == TrimmedText(s)
      dots == {i \in 1..Len(t) : t[i] = "."}
      digits == {i \in 1..Len(t) : IsDigit(t[i])}
  IN \/ EqIgnoringCase(t, <<"n", "a", "n">>)
     \/ /\ digits # {}
        /\ Cardinality(dots) <= 1
        /\ dots \cup digits = 1..Len(t)

\* a raw value that is no absent marker and cannot be parsed as a number
Unparseable(v) == v.kind = "str" /\ v \notin AbsentMarkers /\ ~NumberText(v.s)

\* C19: clean_numeric_field returns a value that is no absent marker and
\* cannot be parsed as a number unchanged, as text, and compare_values then
\* finds it unequal to every parsed number.
C19_UnparseableKept ==
  fpc \in {"numeric", "compared_numeric"} =>
    \A m \in Impls :
      /\ Unparseable(val1) => cleaned[m][1] = val1
      /\ Unparseable(val2) => cleaned[m][2] = val2
      /\ (fpc = "compared_numeric" /\ Unparseable(val1) /\ cleaned[m][2].kind = "num") =>
           ~equal[m]
      /\ (fpc = "compared_numeric" /\ Unparseable(val2) /\ cleaned[m][1].kind = "num") =>
           ~equal[m]

C19_Witness ==
  /\ fpc = "compared_numeric"
  /\ val1 = Str(<<"a", "b">>)
  /\ val2 = Str(<<" ", "5", ".", "0">>)
  /\ cleaned.gui[1] = val1
  /\ cleaned.gui[2] = Num(5, <<>>)
  /\ ~equal.gui


\* the terminal messages of run r: handled, or handed over and waiting
MessagesOf(r) ==
  LET OfRun(m) == m.run = r
  IN SelectSeq(handled \o after_queue, OfRun)

\* the worker thread of run r has ended
Ended(r) == r < started \/ worker = "idle"

\* the message agrees with the outcome of TableFiller.run
AgreesWithOutcome(m) ==
  /\ pc \in {"done", "failed"}
  /\ pc = "done" =>
       m.handler = "_update_ui_success" /\ m.result = result
  /\ pc = "failed" =>
       m.handler = "_update_ui_error" /\ m.error_message = error /\ error # "none"

\* C15: every started background run hands the foreground exactly one
\* terminal message, _update_ui_success with the summary or _update_ui_error
\* with the message of the exception: none while the run is under way, one
\* once its thread has ended, never two, whatever TableFiller.run did
C15_OneTerminalMessage ==
  \A r \in 1..started :
    /\ Len(MessagesOf(r)) <= 1
    /\ Ended(r) => Len(MessagesOf(r)) = 1
    /\ ~Ended(r) => Len(MessagesOf(r)) = 0
    /\ (r = started /\ Ended(r)) => AgreesWithOutcome(MessagesOf(r)[1])

\* two runs have failed, each with its one error message handled
C15_Witness ==
  /\ started = MaxRuns
  /\ Len(handled) = MaxRuns
  /\ handled[1].handler = "_update_ui_error"
  /\ handled[1].error_message = "KeyError"
  /\ handled[MaxRuns].run = MaxRuns

\* a run is in flight: its thread is alive or its message is not yet handled
InFlight == threads > 0 \/ after_queue # <<>>

\* a step starts a worker only with the four paths set, no other run in
\* flight and the button disabled by the same step; a step re-enables the
\* button only by handling the message of the last started run
StartsAndReenables ==
  /\ threads' > threads =>
       /\ path_vars = PathVars
       /\ ~InFlight
       /\ run_button' = "disabled"
       /\ started' = started + 1
  /\ (run_button = "disabled" /\ run_button' = "normal") =>
       /\ after_queue # <<>>
       /\ Head(after_queue).run = started
       /\ handled' = Append(handled, Head(after_queue))
       /\ after_queue' = <<>>

\* C20: at most one background run is in flight; a worker starts only with
\* the four paths set and the Run button disabled first; the button is
\* re-enabled only by the handler of that run's terminal message; and every
\* started run eventually re-enables the button
C20_OneRunInFlight ==
  /\ [](threads + Len(after_queue) <= 1 /\ (InFlight => run_button = "disabled"))
  /\ [][StartsAndReenables]_vars
  /\ (run_button = "disabled") ~> (run_button = "normal" /\ Len(handled) = started)

\* a run was started and its handler has re-enabled the button
C20_Witness ==
  /\ started >= 1
  /\ Len(handled) = started
  /\ run_button = "normal"
  /\ ~InFlight
  /\ handled[started].handler = "_update_ui_success"

============================================================================
